---- MODULE Spec2Model ----
(***************************************************************************)
(* Model of graph_client.py: the GraphClient token cache, the generic      *)
(* request path (_get_token / _headers / _request), the with_retry         *)
(* wrapper and the three public operations create_event, patch_event and   *)
(* send_mail.  HTTP peers (identity endpoint, Graph API) are the            *)
(* environment: every response they can give is drawn from a small set.    *)
(***************************************************************************)
EXTENDS Integers, Sequences, FiniteSets, TLC

(* ---------------------------------------------------------------------- *)
(* Bounds of the model                                                      *)
(* ---------------------------------------------------------------------- *)
MaxCalls == 2

Callers == {1, 2}

SeqCaller == {1}

(* ---------------------------------------------------------------------- *)
(* Program constants                                                        *)
(* ---------------------------------------------------------------------- *)
max_attempts == 3

base_delay_s == 1

base_url == "https://graph.microsoft.com/v1.0"

scheduler_mailbox == "scheduler@x.com"

(* ---------------------------------------------------------------------- *)
(* Python values                                                            *)
(* ---------------------------------------------------------------------- *)
\* self._token: Optional[str]; None is [set |-> FALSE].
NoToken == [set |-> FALSE, val |-> ""]

\* Variant: a field other than access_token is stored.
TokWrongField(s) == [set |-> TRUE, val |-> "Bearer"]

Tok(s) == [set |-> TRUE, val |-> s]

\* Python truthiness of an Optional[str]: None and "" are falsy.
TokenTruthy(t) == t.set /\ t.val # ""

\* Decoded JSON values: a type tag and the items of the value (keys of a
\* dict, elements of a list, units of an int, <<"1">> for true).
JNull == [type |-> "null", items |-> <<>>]

EmptyDict == [type |-> "dict", items |-> <<>>]

JVal(t, s) == [type |-> t, items |-> s]

\* Python truthiness of a decoded JSON value.
PyTruthy(v) == v.type # "null" /\ v.items # <<>>

\* Response bodies the Graph API may send, as text.
JsonTexts == {"{}", "[]", "0", "null", "{\"id\":\"e1\"}", "[\"x\"]"}

Garbage == "<html>"

\* r.json(): decodes the text of a body; fails on text that is not JSON.
JsonDecodable(text) == text \in JsonTexts

JsonDecode(text) ==
    CASE text = "{}" -> JVal("dict", <<>>)
      [] text = "[]" -> JVal("list", <<>>)
      [] text = "0" -> JVal("int", <<>>)
      [] text = "null" -> JNull
      [] text = "{\"id\":\"e1\"}" -> JVal("dict", <<"id">>)
      [] text = "[\"x\"]" -> JVal("list", <<"x">>)

\* Exceptions: kind, where it arose, the response it carries and the
\* attempt (0-indexed) in which it was created (its identity).
NoExc == [kind |-> "None", origin |-> "", status |-> 0, body |-> "", attempt |-> 0]

Exc(k, o, s, b, a) == [kind |-> k, origin |-> o, status |-> s, body |-> b, attempt |-> a]

\* requests.Response.raise_for_status(): HTTPError for 4xx and 5xx only.
RaisesForStatus(status) == status >= 400 /\ status < 600

(* ---------------------------------------------------------------------- *)
(* Environment: responses of the identity endpoint and of the Graph API     *)
(* ---------------------------------------------------------------------- *)
AccessTokens == {"", "tokA", "tokB"}

\* hasKey: the decoded body has the field access_token.
TokenResponses ==
    {[status |-> 200, decodable |-> TRUE, hasKey |-> TRUE, access_token |-> t] : t \in AccessTokens}
    \cup {[status |-> 200, decodable |-> TRUE, hasKey |-> FALSE, access_token |-> ""]}
    \cup {[status |-> 304, decodable |-> FALSE, hasKey |-> FALSE, access_token |-> ""]}
    \cup {[status |-> 401, decodable |-> TRUE, hasKey |-> FALSE, access_token |-> ""]}

ApiResponses ==
    {[status |-> 200, content |-> c] : c \in JsonTexts \cup {"", Garbage}}
    \cup {[status |-> s, content |-> ""] : s \in {100, 204, 304}}
    \cup {[status |-> 400, content |-> "{\"error\":1}"], [status |-> 401, content |-> ""],
          [status |-> 500, content |-> ""]}

(* ---------------------------------------------------------------------- *)
(* Arguments of the public operations                                       *)
(* ---------------------------------------------------------------------- *)
Payloads == {[subject |-> "standup"], [subject |-> "review"]}

SendUpdates == {"all", "none"}

EventIds == {"e1"}

Addresses == {"a@x.com", "b@x.com"}

MaxRecipients == 2

RecipientLists == UNION {[1..n -> Addresses] : n \in 0..MaxRecipients}

\* attachments=None is [isNone |-> TRUE]; a list is [isNone |-> FALSE].
NoAttachments == [isNone |-> TRUE, items |-> <<>>]

AttachmentArgs ==
    {NoAttachments, [isNone |-> FALSE, items |-> <<>>],
     [isNone |-> FALSE, items |-> <<"g.txt", "f.txt">>]}

\* Python truthiness of the attachments argument.
AttTruthy(a) == ~a.isNone /\ a.items # <<>>

NoArgs ==
    [payload |-> [subject |-> ""], send_updates |-> "", event_id |-> "",
     to |-> <<>>, subject |-> "", body |-> "", attachments |-> NoAttachments]

(* ---------------------------------------------------------------------- *)
(* Pure parts of the program                                                *)
(* ---------------------------------------------------------------------- *)
\* Variant: the exponent is taken one too high.
BackoffOffByOne(k) == base_delay_s * (2 ^ (k + 1))

\* with_retry: delay slept after failed attempt k.
Backoff(k) == base_delay_s * (2 ^ k)

\* Variant: only the first exception is remembered.
KeepFirstExc(last, e) == IF last = NoExc THEN e ELSE last

\* with_retry: except Exception as e: last_exc = e.
KeepExc(last, e) == e

\* Variant: the loop runs one index too far.
LoopContinuesOneMore(k) == k <= max_attempts

\* with_retry: for attempt in range(max_attempts) continues at index k.
LoopContinues(k) == k < max_attempts

\* Variant: the token is left out of the Authorization header.
HeadersNoToken(tok) == [Authorization |-> <<"Bearer", "">>, ContentType |-> "application/json"]

\* _headers(): the Authorization and Content-Type headers.
Headers(tok) == [Authorization |-> <<"Bearer", tok.val>>, ContentType |-> "application/json"]

\* send_mail: the message and its envelope.
Recipients(to) == [i \in 1..Len(to) |-> [emailAddress |-> [address |-> to[i]]]]

\* Variant: if attachments is not None.
IncludeAttachmentsNotNone(a) == ~a.isNone

\* send_mail: if attachments:
IncludeAttachments(a) == AttTruthy(a)

MailMessage(a) ==
    LET message == [subject |-> a.subject,
                    body |-> [contentType |-> "HTML", content |-> a.body],
                    toRecipients |-> Recipients(a.to)]
    IN  IF IncludeAttachments(a.attachments)
        THEN [k \in DOMAIN message \cup {"attachments"} |->
                 IF k = "attachments" THEN a.attachments.items ELSE message[k]]
        ELSE message

MailPayload(a) == [message |-> MailMessage(a), saveToSentItems |-> TRUE]

\* The requests.request(...) call each operation makes through _request.
CreateEventRequest(a, tok) ==
    [method |-> "POST",
     url |-> <<base_url, "/users/", scheduler_mailbox, "/events">>,
     params |-> << <<"sendUpdates", a.send_updates>> >>,
     json |-> a.payload,
     headers |-> Headers(tok)]

PatchEventRequest(a, tok) ==
    [method |-> "PATCH",
     url |-> <<base_url, "/users/", scheduler_mailbox, "/events/", a.event_id>>,
     params |-> << <<"sendUpdates", a.send_updates>> >>,
     json |-> a.payload,
     headers |-> Headers(tok)]

SendMailRequest(a, tok) ==
    [method |-> "POST",
     url |-> <<base_url, "/users/", scheduler_mailbox, "/sendMail">>,
     params |-> <<>>,
     json |-> MailPayload(a),
     headers |-> Headers(tok)]

BuildRequest(o, a, tok) ==
    CASE o = "create_event" -> CreateEventRequest(a, tok)
      [] o = "patch_event" -> PatchEventRequest(a, tok)
      [] o = "send_mail" -> SendMailRequest(a, tok)

NoRequest ==
    [method |-> "", url |-> <<>>, params |-> <<>>, json |-> [subject |-> ""],
     headers |-> Headers(NoToken)]

NoResponse == [status |-> 0, content |-> ""]

\* _request: return r.status_code, r.json() if r.content else None
RequestBody(resp) == IF resp.content # "" THEN JsonDecode(resp.content) ELSE JNull

\* Variant: return body.
CreateEventReturnRaw(body) == body

\* create_event: return body or {}
CreateEventReturn(body) == IF PyTruthy(body) THEN body ELSE EmptyDict

\* What the operation returns to the wrapper after a successful _request.
OpReturn(o, body) == IF o = "create_event" THEN CreateEventReturn(body) ELSE JNull

(* ---------------------------------------------------------------------- *)
(* State                                                                    *)
(* ---------------------------------------------------------------------- *)
VARIABLES
    token,        \* GraphClient._token
    pc,           \* position of each caller
    op,           \* operation the caller is in
    args,         \* its arguments
    attempt,      \* loop index of with_retry.wrapper
    last_exc,     \* with_retry.wrapper's last_exc
    got,          \* the value _get_token returned to _headers
    lastReq,      \* the API request most recently sent by the caller
    lastResp,     \* the API response most recently received by the caller
    result,       \* value returned to the caller
    raised,       \* exception raised to the caller
    slept,        \* history: durations passed to time.sleep in this call
    thrown,       \* history: exception of the most recent failed attempt
    tokReqs,      \* history: token requests sent in this call
    apiReqs,      \* history: API requests sent in this call
    sentAuth,     \* history: tokens carried by the API requests of this call
    failed,       \* history: some attempt of the client has raised
    issued,       \* history: tokens returned by successful token requests
    lastIssued,   \* history: token returned by the latest of them
    calls         \* history: calls started on the client

vars == <<token, pc, op, args, attempt, last_exc, got, lastReq, lastResp, result,
          raised, slept, thrown, tokReqs, apiReqs, sentAuth, failed, issued,
          lastIssued, calls>>

Init ==
    /\ token = NoToken
    /\ pc = [p \in Callers |-> "idle"]
    /\ op = [p \in Callers |-> "none"]
    /\ args = [p \in Callers |-> NoArgs]
    /\ attempt = [p \in Callers |-> 0]
    /\ last_exc = [p \in Callers |-> NoExc]
    /\ got = [p \in Callers |-> NoToken]
    /\ lastReq = [p \in Callers |-> NoRequest]
    /\ lastResp = [p \in Callers |-> NoResponse]
    /\ result = [p \in Callers |-> JNull]
    /\ raised = [p \in Callers |-> NoExc]
    /\ slept = [p \in Callers |-> <<>>]
    /\ thrown = [p \in Callers |-> NoExc]
    /\ tokReqs = [p \in Callers |-> 0]
    /\ apiReqs = [p \in Callers |-> 0]
    /\ sentAuth = [p \in Callers |-> <<>>]
    /\ failed = FALSE
    /\ issued = {}
    /\ lastIssued = ""
    /\ calls = 0

(* ---------------------------------------------------------------------- *)
(* Operations                                                               *)
(* ---------------------------------------------------------------------- *)
\* The caller invokes a public operation: wrapper sets last_exc = None and
\* enters the loop with attempt = 0.
StartCall(p, o, a) ==
    /\ pc[p] = "idle"
    /\ calls < MaxCalls
    /\ calls' = calls + 1
    /\ pc' = [pc EXCEPT ![p] = "attempt"]
    /\ op' = [op EXCEPT ![p] = o]
    /\ args' = [args EXCEPT ![p] = a]
    /\ attempt' = [attempt EXCEPT ![p] = 0]
    /\ last_exc' = [last_exc EXCEPT ![p] = NoExc]
    /\ UNCHANGED <<token, got, lastReq, lastResp, result, raised, slept, thrown,
                   tokReqs, apiReqs, sentAuth, failed>>
    /\ UNCHANGED <<issued, lastIssued>>

create_event(p) ==
    \E pl \in Payloads, su \in SendUpdates :
        StartCall(p, "create_event", [NoArgs EXCEPT !.payload = pl, !.send_updates = su])

patch_event(p) ==
    \E id \in EventIds, pl \in Payloads, su \in SendUpdates :
        StartCall(p, "patch_event",
                  [NoArgs EXCEPT !.event_id = id, !.payload = pl, !.send_updates = su])

send_mail(p) ==
    \E to \in RecipientLists, att \in AttachmentArgs :
        StartCall(p, "send_mail",
                  [NoArgs EXCEPT !.to = to, !.subject = "Subj", !.body = "<p>Hi</p>",
                                 !.attachments = att])

\* Variant: a transport failure is retried at once, without a sleep.
FailKindAware(p, e) ==
    /\ last_exc' = [last_exc EXCEPT ![p] = e]
    /\ thrown' = [thrown EXCEPT ![p] = e]
    /\ slept' = [slept EXCEPT ![p] =
                    Append(slept[p], IF e.kind = "ConnectionError" THEN 0
                                     ELSE base_delay_s * (2 ^ attempt[p]))]
    /\ failed' = TRUE
    /\ pc' = [pc EXCEPT ![p] = "sleeping"]

\* An exception e escapes fn in the current attempt: the handler of
\* with_retry stores it and calls time.sleep(base_delay_s * 2 ** attempt).
Fail(p, e) ==
    /\ last_exc' = [last_exc EXCEPT ![p] = KeepExc(last_exc[p], e)]
    /\ thrown' = [thrown EXCEPT ![p] = e]
    /\ slept' = [slept EXCEPT ![p] = Append(slept[p], Backoff(attempt[p]))]
    /\ failed' = TRUE
    /\ pc' = [pc EXCEPT ![p] = "sleeping"]

\* An attempt begins: fn -> _request -> _headers -> _get_token tests the
\* cache; on a miss the token request is sent.
GetToken(p) ==
    /\ pc[p] = "attempt"
    /\ IF TokenTruthy(token)
       THEN /\ pc' = [pc EXCEPT ![p] = "token_return"]
            /\ UNCHANGED tokReqs
       ELSE /\ pc' = [pc EXCEPT ![p] = "token_wait"]
            /\ tokReqs' = [tokReqs EXCEPT ![p] = @ + 1]
    /\ UNCHANGED <<token, op, args, attempt, last_exc, got, lastReq, lastResp, result,
                   raised, slept, thrown, apiReqs, sentAuth, failed, calls>>
    /\ UNCHANGED <<issued, lastIssued>>

\* Variant: _get_token sends the token request again by itself.
TokenTransportRetry(p) ==
    /\ pc[p] = "token_wait"
    /\ tokReqs[p] < 2 * max_attempts
    /\ tokReqs' = [tokReqs EXCEPT ![p] = @ + 1]
    /\ UNCHANGED <<token, pc, op, args, attempt, last_exc, got, lastReq, lastResp,
                   result, raised, slept, thrown, apiReqs, sentAuth, failed, issued,
                   lastIssued, calls>>

\* requests.post to the identity endpoint raises (timeout, connection).
TokenTransportFailure(p) ==
    /\ pc[p] = "token_wait"
    /\ Fail(p, Exc("ConnectionError", "token", 0, "", attempt[p]))
    /\ UNCHANGED <<token, op, args, attempt, got, lastReq, lastResp, result, raised,
                   tokReqs, apiReqs, sentAuth, calls>>
    /\ UNCHANGED <<issued, lastIssued>>

\* The identity endpoint answers: raise_for_status, then
\* self._token = r.json()["access_token"].
TokenResponseFrom(p, responses) ==
    /\ pc[p] = "token_wait"
    /\ \E r \in responses :
        IF RaisesForStatus(r.status)
        THEN /\ Fail(p, Exc("HTTPError", "token", r.status, "", attempt[p]))
             /\ UNCHANGED <<token, issued, lastIssued>>
        ELSE IF ~r.decodable
        THEN /\ Fail(p, Exc("JSONDecodeError", "token", r.status, "", attempt[p]))
             /\ UNCHANGED <<token, issued, lastIssued>>
        ELSE IF ~r.hasKey
        THEN /\ Fail(p, Exc("KeyError", "token", r.status, "", attempt[p]))
             /\ UNCHANGED <<token, issued, lastIssued>>
        ELSE /\ token' = Tok(r.access_token)
             /\ issued' = issued \cup {r.access_token}
             /\ lastIssued' = r.access_token
             /\ pc' = [pc EXCEPT ![p] = "token_return"]
             /\ UNCHANGED <<last_exc, thrown, slept, failed>>
    /\ UNCHANGED <<op, args, attempt, got, lastReq, lastResp, result, raised,
                   tokReqs, apiReqs, sentAuth, calls>>

TokenResponse(p) == TokenResponseFrom(p, TokenResponses)

\* _get_token: return self._token
TokenReturn(p) ==
    /\ pc[p] = "token_return"
    /\ got' = [got EXCEPT ![p] = token]
    /\ pc' = [pc EXCEPT ![p] = "send"]
    /\ UNCHANGED <<token, op, args, attempt, last_exc, lastReq, lastResp, result,
                   raised, slept, thrown, tokReqs, apiReqs, sentAuth,
                   failed, calls>>
    /\ UNCHANGED <<issued, lastIssued>>

\* _request: requests.request(method, url, headers, params, json) is sent.
SendRequest(p) ==
    /\ pc[p] = "send"
    /\ lastReq' = [lastReq EXCEPT ![p] = BuildRequest(op[p], args[p], got[p])]
    /\ apiReqs' = [apiReqs EXCEPT ![p] = @ + 1]
    /\ sentAuth' = [sentAuth EXCEPT ![p] = Append(@, got[p].val)]
    /\ pc' = [pc EXCEPT ![p] = "api_wait"]
    /\ UNCHANGED <<token, op, args, attempt, last_exc, got, lastResp, result, raised,
                   slept, thrown, tokReqs, failed, calls>>
    /\ UNCHANGED <<issued, lastIssued>>

\* requests.request raises (timeout, connection).
ApiTransportFailure(p) ==
    /\ pc[p] = "api_wait"
    /\ Fail(p, Exc("ConnectionError", "api", 0, "", attempt[p]))
    /\ UNCHANGED <<token, op, args, attempt, got, lastReq, lastResp, result, raised,
                   tokReqs, apiReqs, sentAuth, calls>>
    /\ UNCHANGED <<issued, lastIssued>>

\* The API answers: raise_for_status, decode the body, the operation
\* returns and the wrapper returns its value.
ApiResponseFrom(p, responses) ==
    /\ pc[p] = "api_wait"
    /\ \E r \in responses :
        /\ lastResp' = [lastResp EXCEPT ![p] = r]
        /\ IF RaisesForStatus(r.status)
           THEN /\ Fail(p, Exc("HTTPError", "api", r.status, r.content, attempt[p]))
                /\ UNCHANGED result
           ELSE IF r.content # "" /\ ~JsonDecodable(r.content)
           THEN /\ Fail(p, Exc("JSONDecodeError", "api", r.status, r.content, attempt[p]))
                /\ UNCHANGED result
           ELSE /\ result' = [result EXCEPT ![p] = OpReturn(op[p], RequestBody(r))]
                /\ pc' = [pc EXCEPT ![p] = "returned"]
                /\ UNCHANGED <<last_exc, thrown, slept, failed>>
    /\ UNCHANGED <<token, op, args, attempt, got, lastReq, raised, tokReqs, apiReqs,
                   sentAuth, calls>>
    /\ UNCHANGED <<issued, lastIssued>>

ApiResponse(p) == ApiResponseFrom(p, ApiResponses)

\* Variant: when the loop is exhausted the wrapper starts over instead of
\* raising.
EndSleepStartOver(p) ==
    /\ pc[p] = "sleeping"
    /\ pc' = [pc EXCEPT ![p] = "attempt"]
    /\ IF attempt[p] + 1 < max_attempts
       THEN /\ attempt' = [attempt EXCEPT ![p] = @ + 1]
            /\ UNCHANGED <<slept, tokReqs, apiReqs, sentAuth>>
       ELSE /\ attempt' = [attempt EXCEPT ![p] = 0]
            /\ slept' = [slept EXCEPT ![p] = <<>>]
            /\ tokReqs' = [tokReqs EXCEPT ![p] = 0]
            /\ apiReqs' = [apiReqs EXCEPT ![p] = 0]
            /\ sentAuth' = [sentAuth EXCEPT ![p] = <<>>]
    /\ UNCHANGED <<token, op, args, last_exc, got, lastReq, lastResp, result, raised,
                   thrown, failed, issued, lastIssued, calls>>

\* time.sleep returns: the loop moves to the next index, or is exhausted
\* and the wrapper raises last_exc.
EndSleep(p) ==
    /\ pc[p] = "sleeping"
    /\ attempt' = [attempt EXCEPT ![p] = @ + 1]
    /\ IF LoopContinues(attempt[p] + 1)
       THEN /\ pc' = [pc EXCEPT ![p] = "attempt"]
            /\ UNCHANGED raised
       ELSE /\ pc' = [pc EXCEPT ![p] = "raised"]
            /\ raised' = [raised EXCEPT ![p] = last_exc[p]]
    /\ UNCHANGED <<token, op, args, last_exc, got, lastReq, lastResp, result, slept,
                   thrown, tokReqs, apiReqs, sentAuth, failed, calls>>
    /\ UNCHANGED <<issued, lastIssued>>

\* The call is over: the caller has its value or its exception, and the
\* frame of wrapper is gone.
Done(p) ==
    /\ pc[p] \in {"returned", "raised"}
    /\ pc' = [pc EXCEPT ![p] = "idle"]
    /\ op' = [op EXCEPT ![p] = "none"]
    /\ args' = [args EXCEPT ![p] = NoArgs]
    /\ attempt' = [attempt EXCEPT ![p] = 0]
    /\ last_exc' = [last_exc EXCEPT ![p] = NoExc]
    /\ got' = [got EXCEPT ![p] = NoToken]
    /\ lastReq' = [lastReq EXCEPT ![p] = NoRequest]
    /\ lastResp' = [lastResp EXCEPT ![p] = NoResponse]
    /\ result' = [result EXCEPT ![p] = JNull]
    /\ raised' = [raised EXCEPT ![p] = NoExc]
    /\ slept' = [slept EXCEPT ![p] = <<>>]
    /\ thrown' = [thrown EXCEPT ![p] = NoExc]
    /\ tokReqs' = [tokReqs EXCEPT ![p] = 0]
    /\ apiReqs' = [apiReqs EXCEPT ![p] = 0]
    /\ sentAuth' = [sentAuth EXCEPT ![p] = <<>>]
    /\ UNCHANGED <<token, failed, calls>>
    /\ UNCHANGED <<issued, lastIssued>>

Step(p) ==
    \/ create_event(p)
    \/ patch_event(p)
    \/ send_mail(p)
    \/ GetToken(p)
    \/ TokenTransportFailure(p)
    \/ TokenResponse(p)
    \/ TokenReturn(p)
    \/ SendRequest(p)
    \/ ApiTransportFailure(p)
    \/ ApiResponse(p)
    \/ EndSleep(p)
    \/ Done(p)

\* One client used sequentially by one caller.
Next == \E p \in SeqCaller : Step(p)

Spec == Init /\ [][Next]_vars

\* The steps of a call that is under way.  Each of them is taken once it is
\* possible: a request ends with a response or a failure (timeout=15 and
\* timeout=20), a sleep ends, and the code between them runs.
Progress(p) ==
    \/ GetToken(p)
    \/ TokenTransportFailure(p)
    \/ TokenResponse(p)
    \/ TokenReturn(p)
    \/ SendRequest(p)
    \/ ApiTransportFailure(p)
    \/ ApiResponse(p)
    \/ EndSleep(p)

SpecLive == Init /\ [][Next]_vars /\ \A p \in SeqCaller : WF_vars(Progress(p))

\* Two callers (threads) share the client: their calls interleave at the
\* cache test, the token request, the store and read of self._token, and
\* the API request.  The peers answer with a success or a failing status.
ConcTokenResponses ==
    {r \in TokenResponses : r.status = 401 \/ (r.hasKey /\ r.access_token # "")}

ConcApiResponses ==
    {r \in ApiResponses : r = [status |-> 200, content |-> "{\"id\":\"e1\"}"]
                              \/ r.status = 500}

ConcCall(p) ==
    \/ StartCall(p, "create_event",
                 [NoArgs EXCEPT !.payload = [subject |-> "standup"], !.send_updates = "all"])
    \/ StartCall(p, "send_mail",
                 [NoArgs EXCEPT !.to = <<"a@x.com">>, !.subject = "Subj",
                                !.body = "<p>Hi</p>"])

ConcTokenResponse(p) == TokenResponseFrom(p, ConcTokenResponses)

ConcApiResponse(p) == ApiResponseFrom(p, ConcApiResponses)

ConcStep(p) ==
    \/ ConcCall(p)
    \/ GetToken(p)
    \/ ConcTokenResponse(p)
    \/ TokenReturn(p)
    \/ SendRequest(p)
    \/ ConcApiResponse(p)
    \/ EndSleep(p)
    \/ Done(p)

NextConc == \E p \in Callers : ConcStep(p)

SpecConc == Init /\ [][NextConc]_vars

(* ---------------------------------------------------------------------- *)
(* Properties                                                               *)
(* ---------------------------------------------------------------------- *)
RECURSIVE SumSeq(_)
SumSeq(s) == IF s = <<>> THEN 0 ELSE Head(s) + SumSeq(Tail(s))

\* Attempts the current call of p has started so far.
Started(p) ==
    IF pc[p] = "idle" THEN 0
    ELSE IF pc[p] = "raised" THEN attempt[p]
    ELSE attempt[p] + 1

\* C1: a call whose first N-1 attempts fail and whose attempt N succeeds
\* (N in 1..3) returns the result of attempt N, having slept 0s, 1s or 3s
\* in total: N-1 sleeps of 1s, 2s, ...
C1_SuccessAfterRetries ==
    \A p \in Callers :
        pc[p] = "returned" =>
            /\ attempt[p] \in 0..2
            /\ Len(slept[p]) = attempt[p]
            /\ SumSeq(slept[p]) = (CASE attempt[p] = 0 -> 0
                                     [] attempt[p] = 1 -> 1
                                     [] attempt[p] = 2 -> 3)
            /\ lastResp[p].status \notin 400..599
            /\ op[p] # "create_event" => result[p] = JNull
            /\ (op[p] = "create_event" /\ lastResp[p].content = "{\"id\":\"e1\"}")
                   => result[p] = [type |-> "dict", items |-> <<"id">>]

C1_Witness ==
    \E p \in Callers :
        /\ pc[p] = "returned"
        /\ attempt[p] = 2
        /\ slept[p] = <<1, 2>>
        /\ op[p] = "create_event"
        /\ result[p] = [type |-> "dict", items |-> <<"id">>]

\* C2: when all 3 attempts fail, the exception raised to the caller is the
\* one created in the 3rd attempt, unchanged, never that of attempt 1 or 2.
C2_RaisesFinalError ==
    \A p \in Callers :
        pc[p] = "raised" =>
            /\ raised[p] = thrown[p]
            /\ raised[p].kind # "None"
            /\ raised[p].attempt = 2

\* Attempts 1 and 2 failed while acquiring the token, attempt 3 failed on
\* the API response: three errors, not all of one kind.
C2_Witness ==
    \E p \in Callers :
        /\ pc[p] = "raised"
        /\ apiReqs[p] = 1
        /\ tokReqs[p] = 3
        /\ raised[p].kind = "HTTPError"
        /\ raised[p].origin = "api"
        /\ raised[p].status = 500

\* C3: sleeps happen only between an attempt and the next one (the sleep
\* after failed attempt k lasts 2^k seconds and attempt k+1 follows); a call
\* whose 3 attempts fail has slept exactly twice, 1s and 2s, when it raises.
C3_SleepOnlyBetweenAttempts ==
    \A p \in Callers :
        /\ pc[p] = "sleeping" => attempt[p] + 1 < 3
        /\ pc[p] = "raised" => slept[p] = <<1, 2>>

\* C4: on a client used sequentially, as long as no token request and no
\* API request has failed, the first call has sent at most one token
\* request and every later call has sent none.
C4_TokenFetchedOnce ==
    \A p \in Callers :
        ~failed => /\ tokReqs[p] <= 1
                   /\ calls >= 2 => tokReqs[p] = 0

\* C5: a call during which every API response had a status outside
\* 200..299 raises after 3 attempts (so a call that returns has received a
\* 2xx response), and the error raised carries the status and body of the
\* final response.
C5_NonSuccessStatusRaises ==
    \A p \in Callers :
        /\ pc[p] = "returned" => lastResp[p].status \in 200..299
        /\ (pc[p] = "raised" /\ raised[p].origin = "api" /\ raised[p].kind = "HTTPError")
               => /\ raised[p].status = lastResp[p].status
                  /\ raised[p].body = lastResp[p].content

\* C6: a call makes at most 3 attempts, each attempt sends at most one
\* token request and at most one API request, and once the call has
\* returned nothing more happens in it.
C6_StateBound ==
    \A p \in Callers :
        /\ Started(p) <= 3
        /\ tokReqs[p] <= Started(p)
        /\ apiReqs[p] <= Started(p)

C6_NothingAfterSuccess ==
    \A p \in Callers :
        pc[p] = "returned" =>
            \/ pc'[p] = "idle"
            \/ /\ pc'[p] = "returned"
               /\ apiReqs'[p] = apiReqs[p]
               /\ tokReqs'[p] = tokReqs[p]
               /\ attempt'[p] = attempt[p]

C6_AtMostThreeAttempts == [](C6_StateBound) /\ [][C6_NothingAfterSuccess]_vars

\* A call in which all 3 attempts sent a token request and an API request.
C6_Witness ==
    \E p \in Callers :
        /\ pc[p] = "raised"
        /\ attempt[p] = 3
        /\ tokReqs[p] = 3
        /\ apiReqs[p] = 3

\* A create_event call with default send_updates that found the token
\* cached and returned from its first attempt.
CreateEventCachedNoFailure(p) ==
    /\ pc[p] = "returned"
    /\ op[p] = "create_event"
    /\ args[p].send_updates = "all"
    /\ attempt[p] = 0
    /\ tokReqs[p] = 0

\* C7 as stated: such a call returns the decoded body unchanged, whatever
\* its value, and returns an empty mapping only when the response had no
\* body.
C7_ReturnsBodyUnchanged ==
    \A p \in Callers :
        CreateEventCachedNoFailure(p) =>
            /\ lastResp[p].content # "" => result[p] = JsonDecode(lastResp[p].content)
            /\ result[p] = EmptyDict => lastResp[p].content = ""

\* C7 amended: such a call has sent exactly one POST to
\* {base_url}/users/{mailbox}/events with query sendUpdates=all and the
\* caller's payload; it returns the decoded body unchanged when that value
\* is truthy, and an empty mapping when the response had no body or the
\* decoded body is falsy (null, {}, [], 0).
C7_ReturnsBodyOrEmptyMapping ==
    \A p \in Callers :
        CreateEventCachedNoFailure(p) =>
            /\ apiReqs[p] = 1
            /\ lastReq[p].method = "POST"
            /\ lastReq[p].url = <<"https://graph.microsoft.com/v1.0", "/users/",
                                  "scheduler@x.com", "/events">>
            /\ lastReq[p].params = << <<"sendUpdates", "all">> >>
            /\ lastReq[p].json = args[p].payload
            /\ lastResp[p].content = "{\"id\":\"e1\"}"
                   => result[p] = [type |-> "dict", items |-> <<"id">>]
            /\ lastResp[p].content = "[\"x\"]"
                   => result[p] = [type |-> "list", items |-> <<"x">>]
            /\ lastResp[p].content \in {"", "null", "{}", "[]", "0"}
                   => result[p] = [type |-> "dict", items |-> <<>>]

C7_Witness ==
    \E p \in Callers :
        /\ CreateEventCachedNoFailure(p)
        /\ lastResp[p].content = ""
        /\ result[p] = [type |-> "dict", items |-> <<>>]

\* C8: the body posted by send_mail has one toRecipients entry per element
\* of `to`, in input order; the attachments key is present, with the
\* supplied list, exactly when a non-empty list was supplied;
\* saveToSentItems is true and there are no query parameters.
C8_SendMailBody ==
    \A p \in Callers :
        (op[p] = "send_mail" /\ lastReq[p].method # "") =>
            LET m == lastReq[p].json.message
                a == args[p]
            IN  /\ Len(m.toRecipients) = Len(a.to)
                /\ \A i \in 1..Len(a.to) : m.toRecipients[i].emailAddress.address = a.to[i]
                /\ ("attachments" \in DOMAIN m) <=> (~a.attachments.isNone /\ Len(a.attachments.items) > 0)
                /\ ("attachments" \in DOMAIN m) => m.attachments = a.attachments.items
                /\ lastReq[p].json.saveToSentItems = TRUE
                /\ lastReq[p].params = <<>>
                /\ lastReq[p].method = "POST"

C8_Witness ==
    \E p \in Callers :
        /\ op[p] = "send_mail"
        /\ lastReq[p].method = "POST"
        /\ args[p].to = <<"b@x.com", "a@x.com">>
        /\ args[p].attachments.items = <<"g.txt", "f.txt">>
        /\ lastReq[p].json.message.attachments = <<"g.txt", "f.txt">>

\* C9: a call whose token acquisitions all succeeded and whose 3 API
\* requests all failed has sent exactly 1 token request, and its 3 API
\* requests carried the same token.
C9_CachedTokenKept ==
    \A p \in Callers :
        (pc[p] = "raised" /\ apiReqs[p] = 3 /\ calls = 1) =>
            /\ tokReqs[p] = 1
            /\ \A i, j \in 1..Len(sentAuth[p]) : sentAuth[p][i] = sentAuth[p][j]

\* C10: whatever value a successful token request returned, once it is
\* stored in the cache it stays there and no further token request is sent.
C10_StoredTokenIsFinal ==
    token.set => /\ token' = token
                 /\ \A p \in Callers : pc'[p] # "token_wait"

C10_CachingUnconditional == [][C10_StoredTokenIsFinal]_vars

\* C11: a failed token request is not retried inside token acquisition:
\* each attempt sends at most one token request; an attempt whose token
\* request failed has sent no API request and has left the cache as it
\* was; a call on a fresh client whose token requests all fail sends 3 token
\* requests and no API request and raises the error of the 3rd token request.
C11_TokenFailureRetriedByWrapper ==
    \A p \in Callers :
        /\ tokReqs[p] <= Started(p)
        /\ (pc[p] = "sleeping" /\ thrown[p].origin = "token")
               => /\ apiReqs[p] <= attempt[p]
                  /\ tokReqs[p] = attempt[p] + 1
                  /\ ~(token.set /\ token.val # "")
        /\ (pc[p] = "raised" /\ apiReqs[p] = 0 /\ calls = 1)
               => /\ tokReqs[p] = 3
                  /\ token = [set |-> FALSE, val |-> ""]
                  /\ raised[p].origin = "token"
                  /\ raised[p].attempt = 2
                  /\ raised[p] = thrown[p]

C11_Witness ==
    \E p \in Callers :
        /\ pc[p] = "raised"
        /\ calls = 1
        /\ apiReqs[p] = 0
        /\ tokReqs[p] = 3
        /\ raised[p].kind = "ConnectionError"
        /\ raised[p].origin = "token"

\* C12: the retry policy is blind to the error kind: the number of attempts
\* and the sequence of sleeps of a call are determined by the number of its
\* failed attempts alone (1s, 2s, 4s after failures 1, 2, 3), whatever the
\* kinds of the errors, and a call raises only after 3 failed attempts.
C12_RetryBlindToKind ==
    \A p \in Callers :
        LET n == Len(slept[p])
        IN  /\ n <= 3
            /\ slept[p] = SubSeq(<<1, 2, 4>>, 1, n)
            /\ pc[p] = "sleeping" => n = attempt[p] + 1
            /\ pc[p] \in {"attempt", "token_wait", "token_return", "send", "api_wait",
                          "returned"} => n = attempt[p]
            /\ pc[p] = "raised" => (n = 3 /\ attempt[p] = 3)

\* An authentication failure (401 of the identity endpoint) in the last of
\* three failed attempts: it was retried like any other error.
C12_Witness ==
    \E p \in Callers :
        /\ pc[p] = "raised"
        /\ raised[p].kind = "HTTPError"
        /\ raised[p].origin = "token"
        /\ raised[p].status = 401
        /\ apiReqs[p] = 2
        /\ slept[p] = <<1, 2, 4>>

\* C13: the error raised to the caller identifies its kind: a non-success
\* status of the identity endpoint gives an AuthenticationError, a non-2xx
\* status of an API call gives an ApiRequestError with the status and body.
C13_ErrorKindIdentified ==
    \A p \in Callers :
        /\ (pc[p] = "raised" /\ raised[p].origin = "token"
                /\ raised[p].status \notin {0} \cup 200..299)
               => raised[p].kind = "AuthenticationError"
        /\ (pc[p] = "raised" /\ raised[p].origin = "api"
                /\ raised[p].status \notin {0} \cup 200..299)
               => /\ raised[p].kind = "ApiRequestError"
                  /\ raised[p].status = lastResp[p].status
                  /\ raised[p].body = lastResp[p].content

C16_NoRequestAfterSuccess ==
    \A p \in Callers :
        pc[p] = "api_wait" => lastResp[p].status \notin 200..299

\* C15: with two callers running concurrently on one client, in every
\* interleaving each API request carries a token that some successful token
\* request returned, and the cache holds the token stored last.
C15_RequestsCarryIssuedToken ==
    /\ token.set => (token.val = lastIssued /\ token.val \in issued)
    /\ \A p \in Callers :
           /\ \A i \in 1..Len(sentAuth[p]) : sentAuth[p][i] \in issued
           /\ pc[p] = "api_wait"
                  => /\ lastReq[p].headers.Authorization[1] = "Bearer"
                     /\ lastReq[p].headers.Authorization[2] \in issued

\* Both callers found the cache empty in their first attempt and each sent
\* a token request; caller 1 sent its API request with tokA, and the cache
\* now holds tokB, stored last by caller 2.
C15_Witness ==
    /\ calls = 2
    /\ attempt[1] = 0 /\ attempt[2] = 0
    /\ tokReqs[1] = 1 /\ tokReqs[2] = 1
    /\ pc[1] = "api_wait"
    /\ sentAuth[1] = <<"tokA">>
    /\ pc[2] = "token_return"
    /\ token = [set |-> TRUE, val |-> "tokB"]
    /\ issued = {"tokA", "tokB"}

\* C17: every call terminates: a call that is under way eventually returns
\* a result or raises an error, having started at most 3 attempts.
C17_CallTerminates ==
    \A p \in Callers :
        (pc[p] \notin {"idle", "returned", "raised"})
            ~> (pc[p] \in {"returned", "raised"} /\ Started(p) <= 3)

\* A call that ended by raising after its 3rd attempt, which failed on the
\* body of the response.
C17_Witness ==
    \E p \in Callers :
        /\ pc[p] = "raised"
        /\ attempt[p] = 3
        /\ Len(slept[p]) = 3
        /\ raised[p].kind = "JSONDecodeError"

====
